---- MODULE Spec2Model ----
(***************************************************************************)
(* SEO Trend Analyzer: the ScoringEngine (pure scoring functions) and the  *)
(* KeywordAnalyzer operations that drive it against the keyword            *)
(* repository (the supabase client).                                       *)
(*                                                                         *)
(* Numbers.  The code computes in IEEE doubles and rounds with Math.round. *)
(* The model computes the same quantities exactly, as integer numerators   *)
(* over a fixed denominator (850 for the opportunity score, 20 for the SEO *)
(* score).  The two agree except when the exact quotient lies exactly      *)
(* half way between two integers: there the accumulated floating-point     *)
(* error decides whether Math.round sees x.5 (and rounds up) or slightly   *)
(* less (and rounds down).  Both happen for integer inputs, so at an exact *)
(* tie the model lets the result be either neighbour (input fpTieUp).      *)
(* Snapshot fields the database stores as floats (velocity_score,          *)
(* niche_saturation, commercial_intent, conversion_potential) are drawn    *)
(* from integers.                                                          *)
(*                                                                         *)
(* An optional snapshot (KeywordMetrics | null, TrendAnalysis | null) is a *)
(* sequence of length 0 (null) or 1 (the snapshot).                        *)
(***************************************************************************)
EXTENDS Integers, Sequences, FiniteSets, TLC

VARIABLES
  op,             \* the operation last invoked: "none", "score", "seo", "find", "competition",
                  \* "velocity", "trending", "seasonal"
  args,           \* its arguments (a record; <<>> when there are none)
  ret,            \* its outcome: [kind |-> "pending" | "ok" | "error", ...]
  keywords,       \* findOpportunities: the candidate rows fetched (line 12-18)
  idx,            \* findOpportunities: number of candidates already scored
  opportunities,  \* findOpportunities: the array built so far (line 24, 49)
  lookupFailed    \* findOpportunities: a per-candidate read answered with an error

vars == <<op, args, ret, keywords, idx, opportunities, lookupFailed>>

Null == <<>>
Some(x) == <<x>>

Min(a, b) == IF a < b THEN a ELSE b
Max(a, b) == IF a > b THEN a ELSE b

(***************************************************************************)
(* Math.round(num / den) for den > 0: the nearest integer, an exact half   *)
(* going up; tieUp = FALSE is the outcome when the double computed for an  *)
(* exact half falls just below it.                                         *)
(***************************************************************************)
IsTie(num, den) == (2 * num) % (2 * den) = den

MathRound(num, den, tieUp) ==
  IF IsTie(num, den) /\ ~tieUp
    THEN num \div den
    ELSE (2 * num + den) \div (2 * den)

(***************************************************************************)
(* ScoringEngine                                                           *)
(***************************************************************************)
RECURSIVE join(_, _)
join(factors, sep) ==
  IF Len(factors) = 0 THEN ""
  ELSE IF Len(factors) = 1 THEN factors[1]
  ELSE factors[1] \o sep \o join(Tail(factors), sep)

\* mutant: a competition index of exactly 40 or 70 gets a phrase
generateFactorsInclusive(keyword, metrics, trend) ==
  LET volume ==
        IF keyword.search_volume > 500
          THEN <<"High search volume (" \o ToString(keyword.search_volume) \o " searches)">>
          ELSE <<>>
      competition ==
        IF keyword.competition_index <= 40 THEN <<"Low competition">>
        ELSE IF keyword.competition_index >= 70 THEN <<"High competition market">>
        ELSE <<>>
      velocity ==
        IF trend # Null /\ trend[1].velocity_score > 50 THEN <<"Rapidly rising trend">>
        ELSE IF trend # Null /\ trend[1].velocity_score > 20 THEN <<"Growing trend">>
        ELSE <<>>
      status ==
        IF keyword.trend_status = "peak" THEN <<"Currently at peak popularity">>
        ELSE IF keyword.trend_status = "rising" THEN <<"Trending upward">>
        ELSE <<>>
      intent ==
        IF metrics # Null /\ metrics[1].commercial_intent > 70 THEN <<"High buyer intent">>
        ELSE <<>>
  IN  volume \o competition \o velocity \o status \o intent

generateFactors(keyword, metrics, trend) ==
  LET volume ==
        IF keyword.search_volume > 500
          THEN <<"High search volume (" \o ToString(keyword.search_volume) \o " searches)">>
          ELSE <<>>
      competition ==
        IF keyword.competition_index < 40 THEN <<"Low competition">>
        ELSE IF keyword.competition_index > 70 THEN <<"High competition market">>
        ELSE <<>>
      velocity ==
        IF trend # Null /\ trend[1].velocity_score > 50 THEN <<"Rapidly rising trend">>
        ELSE IF trend # Null /\ trend[1].velocity_score > 20 THEN <<"Growing trend">>
        ELSE <<>>
      status ==
        IF keyword.trend_status = "peak" THEN <<"Currently at peak popularity">>
        ELSE IF keyword.trend_status = "rising" THEN <<"Trending upward">>
        ELSE <<>>
      intent ==
        IF metrics # Null /\ metrics[1].commercial_intent > 70 THEN <<"High buyer intent">>
        ELSE <<>>
  IN  volume \o competition \o velocity \o status \o intent

\* mutant: every phrase is closed by a full stop
generateReasonFullStop(keyword, metrics, trend) ==
  LET factors == generateFactors(keyword, metrics, trend)
  IN  IF Len(factors) > 0 THEN join(factors, ". ") \o "." ELSE "Moderate opportunity"

generateReason(keyword, metrics, trend) ==
  LET factors == generateFactors(keyword, metrics, trend)
  IN  IF Len(factors) > 0 THEN join(factors, ". ") ELSE "Moderate opportunity"

\* mutant: the thresholds are inclusive
categorizeRevenueTierInclusive(opportunityScore, searchVolume, competitionIndex) ==
  IF opportunityScore >= 80 /\ searchVolume > 1000 /\ competitionIndex < 30 THEN "very_high"
  ELSE IF opportunityScore >= 70 /\ searchVolume > 500 THEN "high"
  ELSE IF opportunityScore >= 50 THEN "medium"
  ELSE "low"

\* mutant: very_high is decided by the score alone
categorizeRevenueTierScoreOnly(opportunityScore, searchVolume, competitionIndex) ==
  IF opportunityScore > 80 THEN "very_high"
  ELSE IF opportunityScore > 70 /\ searchVolume > 500 THEN "high"
  ELSE IF opportunityScore > 50 THEN "medium"
  ELSE "low"

categorizeRevenueTier(opportunityScore, searchVolume, competitionIndex) ==
  IF opportunityScore > 80 /\ searchVolume > 1000 /\ competitionIndex < 30 THEN "very_high"
  ELSE IF opportunityScore > 70 /\ searchVolume > 500 THEN "high"
  ELSE IF opportunityScore > 50 THEN "medium"
  ELSE "low"

\* mutant: the volume term is not capped at 100
weightedSumUncappedVolume(keyword, metrics, trend) ==
  LET velocityScore == IF trend # Null THEN trend[1].velocity_score ELSE 0
      niche_saturation == IF metrics # Null THEN metrics[1].niche_saturation ELSE 50
  IN  keyword.search_volume + (100 - keyword.competition_index) * 200
        + Max(0, velocityScore) * 150 + (100 - niche_saturation) * 100

\* mutant: a negative velocity is not cut off at zero
weightedSumSignedTrend(keyword, metrics, trend) ==
  LET velocityScore == IF trend # Null THEN trend[1].velocity_score ELSE 0
      niche_saturation == IF metrics # Null THEN metrics[1].niche_saturation ELSE 50
  IN  Min(keyword.search_volume, 10000) + (100 - keyword.competition_index) * 200
        + velocityScore * 150 + (100 - niche_saturation) * 100

\* 500 * (volumeScore * 0.2 + competitionScore + trendScore + saturationScore)
weightedSum(keyword, metrics, trend) ==
  LET searchVolume == keyword.search_volume
      competitionIndex == keyword.competition_index
      velocityScore == IF trend # Null THEN trend[1].velocity_score ELSE 0
      niche_saturation == IF metrics # Null THEN metrics[1].niche_saturation ELSE 50
      volumeScore500x02 == Min(searchVolume, 10000)
      competitionScore500 == (100 - competitionIndex) * 200
      trendScore500 == Max(0, velocityScore) * 150
      saturationScore500 == (100 - niche_saturation) * 100
  IN  volumeScore500x02 + competitionScore500 + trendScore500 + saturationScore500

\* mutant: the score is returned as rounded
clampMissing(opportunityScore) == opportunityScore

clamp(opportunityScore) == Min(100, Max(0, opportunityScore))

calculateOpportunityScore(keyword, metrics, trend, tieUp) ==
  LET opportunityScore == MathRound(weightedSum(keyword, metrics, trend), 850, tieUp)
      reason == generateReason(keyword, metrics, trend)
      revenueTier == categorizeRevenueTier(opportunityScore, keyword.search_volume,
                                           keyword.competition_index)
  IN  [keyword |-> keyword.keyword,
       opportunity_score |-> clamp(opportunityScore),
       search_volume |-> keyword.search_volume,
       competition_index |-> keyword.competition_index,
       category |-> keyword.category,
       reason |-> reason,
       potential_revenue_tier |-> revenueTier]

\* mutant: the volume term is not capped at 50
seoSumUncapped(keyword, metrics) ==
  keyword.search_volume + (100 - keyword.competition_index) * 6
    + (IF metrics # Null THEN metrics[1].conversion_potential ELSE 50) * 4

\* 20 * (baseScore + competitiveScore + conversionScore)
seoSum(keyword, metrics) ==
  LET baseScore20 == Min(keyword.search_volume, 1000)
      competitiveScore20 == (100 - keyword.competition_index) * 6
      conversionScore20 ==
        (IF metrics # Null THEN metrics[1].conversion_potential ELSE 50) * 4
  IN  baseScore20 + competitiveScore20 + conversionScore20

calculateSEOScore(keyword, metrics, tieUp) ==
  MathRound(seoSum(keyword, metrics), 20, tieUp)

(***************************************************************************)
(* Inputs                                                                  *)
(***************************************************************************)
TrendStatuses == {"rising", "stable", "declining", "peak", "seasonal"}

\* boundary values of every comparison in the engine, the documented ranges'
\* ends, and values outside the ranges (the engine does not validate)
Volumes == {-1000, 0, 25, 500, 501, 600, 1000, 1001, 10000, 20000}
Competitions == {-20, 0, 20, 29, 30, 39, 40, 70, 71, 100}
Velocities == {-100, -1, 0, 20, 21, 50, 51, 100, 283, 290, 400}
Saturations == {0, 50, 100}
Intents == {70, 71}
Conversions == {0, 50, 100, 120}

Keywords ==
  [id : {"k"}, keyword : {"kw"}, search_volume : Volumes,
   competition_index : Competitions, category : {"cat"},
   trend_status : TrendStatuses]

MetricsSnapshots ==
  [niche_saturation : Saturations, commercial_intent : Intents,
   conversion_potential : Conversions]

TrendSnapshots == [velocity_score : Velocities]

Optional(S) == {Null} \cup {Some(x) : x \in S}

\* the outcomes of the floating-point evaluation: free only at an exact tie
TieOutcomes(num, den) == IF IsTie(num, den) THEN BOOLEAN ELSE {TRUE}

ValidKeyword(k) == k.search_volume >= 0 /\ k.competition_index \in 0..100
ValidMetrics(m) ==
  m # Null => /\ m[1].niche_saturation \in 0..100
              /\ m[1].commercial_intent \in 0..100
              /\ m[1].conversion_potential \in 0..100
ValidTrend(t) == t # Null => t[1].velocity_score \in -100..100

(***************************************************************************)
(* State machine                                                           *)
(***************************************************************************)
Init ==
  /\ op = "none"
  /\ args = <<>>
  /\ ret = [kind |-> "none"]
  /\ keywords = <<>>
  /\ idx = 0
  /\ opportunities = <<>>
  /\ lookupFailed = FALSE

Idle == op = "none"

\* a call of ScoringEngine.calculateOpportunityScore
Score ==
  /\ Idle
  /\ \E keyword \in Keywords, metrics \in Optional(MetricsSnapshots),
        trend \in Optional(TrendSnapshots) :
       \E tieUp \in TieOutcomes(weightedSum(keyword, metrics, trend), 850) :
         /\ op' = "score"
         /\ args' = [keyword |-> keyword, metrics |-> metrics, trend |-> trend,
                     fpTieUp |-> tieUp]
         /\ ret' = [kind |-> "ok",
                    value |-> calculateOpportunityScore(keyword, metrics, trend, tieUp)]
  /\ UNCHANGED <<keywords, idx, opportunities, lookupFailed>>

\* a call of ScoringEngine.calculateSEOScore
SEOScore ==
  /\ Idle
  /\ \E keyword \in Keywords, metrics \in Optional(MetricsSnapshots) :
       \E tieUp \in TieOutcomes(seoSum(keyword, metrics), 20) :
         /\ op' = "seo"
         /\ args' = [keyword |-> keyword, metrics |-> metrics, fpTieUp |-> tieUp]
         /\ ret' = [kind |-> "ok", value |-> calculateSEOScore(keyword, metrics, tieUp)]
  /\ UNCHANGED <<keywords, idx, opportunities, lookupFailed>>

(***************************************************************************)
(* KeywordAnalyzer.findOpportunities and the repository it reads           *)
(***************************************************************************)
MaxRows == 3

CandidateCeiling == 100

PoolRows ==
  << [id |-> "k1", keyword |-> "bravo", search_volume |-> 1500, competition_index |-> 30,
      category |-> "cat", trend_status |-> "rising"],
     [id |-> "k2", keyword |-> "delta", search_volume |-> 1400, competition_index |-> 30,
      category |-> "cat", trend_status |-> "stable"],
     [id |-> "k3", keyword |-> "charlie", search_volume |-> 900, competition_index |-> 20,
      category |-> "cat", trend_status |-> "peak"],
     [id |-> "k4", keyword |-> "echo", search_volume |-> 150, competition_index |-> 50,
      category |-> "cat", trend_status |-> "declining"],
     [id |-> "k5", keyword |-> "alpha", search_volume |-> 2000, competition_index |-> 60,
      category |-> "cat", trend_status |-> "rising"] >>

\* the rows the keywords table may hold
Pool == {PoolRows[i] : i \in 1..Min(MaxRows, Len(PoolRows))}

MinSearchVolumes == {100, 1450}
MaxCompetitionIndexes == {25, 50}
FindMetrics ==
  {[niche_saturation |-> 0, commercial_intent |-> 71, conversion_potential |-> 50]}
FindTrends == {[velocity_score |-> 100]}

\* what a supabase read resolves to: { data, error }
Failed == [data |-> Null, error |-> TRUE]
Answers(S) == {Failed} \cup {[data |-> d, error |-> FALSE] : d \in S}

\* .gte('search_volume', min).lte('competition_index', max)
\* .order('search_volume', { ascending: false }).limit(100): the matching rows
\* in every order the database may give them (rows of equal volume in any order)
selectKeywords(table, minSearchVolume, maxCompetitionIndex) ==
  LET rows == {k \in table : /\ k.search_volume >= minSearchVolume
                             /\ k.competition_index <= maxCompetitionIndex}
      n == Cardinality(rows)
      ordered == {q \in [1..n -> rows] :
                    /\ \A i, j \in 1..n : i # j => q[i] # q[j]
                    /\ \A i, j \in 1..n : i < j => q[i].search_volume >= q[j].search_volume}
  IN  {SubSeq(q, 1, Min(n, CandidateCeiling)) : q \in ordered}

\* mutant: an element goes before the elements of equal score
RECURSIVE sortByScoreUnstable(_)
sortByScoreUnstable(list) ==
  IF Len(list) = 0 THEN <<>>
  ELSE LET sorted == sortByScoreUnstable(SubSeq(list, 1, Len(list) - 1))
           x == list[Len(list)]
           before == {i \in 1..Len(sorted) :
                        sorted[i].opportunity_score > x.opportunity_score}
           n == Cardinality(before)
       IN  SubSeq(sorted, 1, n) \o <<x>> \o SubSeq(sorted, n + 1, Len(sorted))

\* opportunities.sort((a, b) => b.opportunity_score - a.opportunity_score):
\* Array.prototype.sort is stable, so it is the insertion of each element, in
\* array order, behind the elements whose score is at least its own
RECURSIVE sortByScore(_)
sortByScore(list) ==
  IF Len(list) = 0 THEN <<>>
  ELSE LET sorted == sortByScore(SubSeq(list, 1, Len(list) - 1))
           x == list[Len(list)]
           before == {i \in 1..Len(sorted) :
                        sorted[i].opportunity_score >= x.opportunity_score}
           n == Cardinality(before)
       IN  SubSeq(sorted, 1, n) \o <<x>> \o SubSeq(sorted, n + 1, Len(sorted))

\* lines 12-24: the candidate query, and the throw when it fails
FindStart ==
  /\ Idle
  /\ \E minSearchVolume \in MinSearchVolumes,
        maxCompetitionIndex \in MaxCompetitionIndexes,
        table \in SUBSET Pool :
       \E answer \in Answers(selectKeywords(table, minSearchVolume, maxCompetitionIndex)) :
         /\ op' = "find"
         /\ args' = [minSearchVolume |-> minSearchVolume,
                     maxCompetitionIndex |-> maxCompetitionIndex]
         /\ IF answer.error
              THEN /\ ret' = [kind |-> "error", message |-> "Failed to fetch keywords"]
                   /\ keywords' = <<>>
              ELSE /\ ret' = [kind |-> "pending"]
                   /\ keywords' = answer.data
  /\ idx' = 0
  /\ opportunities' = <<>>
  /\ lookupFailed' = FALSE

\* lines 26-50, one pass of the loop: the two lookups keep only `data` of
\* the answer, so a failed lookup leaves null; the candidate is scored and
\* pushed
FindStep ==
  /\ op = "find" /\ ret.kind = "pending"
  /\ idx < Len(keywords)
  /\ LET keyword == keywords[idx + 1] IN
       \E metricsAnswer \in Answers(Optional(FindMetrics)),
          trendAnswer \in Answers(Optional(FindTrends)) :
         LET metrics == metricsAnswer.data
             trend == trendAnswer.data
         IN  \E tieUp \in TieOutcomes(weightedSum(keyword, metrics, trend), 850) :
               /\ opportunities' =
                    Append(opportunities,
                           calculateOpportunityScore(keyword, metrics, trend, tieUp))
               /\ lookupFailed' =
                    (lookupFailed \/ metricsAnswer.error \/ trendAnswer.error)
  /\ idx' = idx + 1
  /\ UNCHANGED <<op, args, ret, keywords>>

\* line 52: the loop is over; sort and return
FindReturn ==
  /\ op = "find" /\ ret.kind = "pending"
  /\ idx = Len(keywords)
  /\ ret' = [kind |-> "ok", value |-> sortByScore(opportunities)]
  /\ UNCHANGED <<op, args, keywords, idx, opportunities, lookupFailed>>

(***************************************************************************)
(* KeywordAnalyzer.getCompetitionAnalysis                                  *)
(***************************************************************************)
MaxIndices == 4

IndexValues == {10, 20, 30, 32, 33, 40, 65, 66}

IndexLists == UNION {[1..n -> IndexValues] : n \in 0..MaxIndices}

\* the values a field of the summary may hold
Number(n) == [type |-> "number", value |-> n]
NaN == [type |-> "NaN"]
undefined == [type |-> "undefined"]

\* indices.sort((a, b) => a - b)
RECURSIVE sortAscending(_)
sortAscending(list) ==
  IF Len(list) = 0 THEN <<>>
  ELSE LET sorted == sortAscending(SubSeq(list, 1, Len(list) - 1))
           x == list[Len(list)]
           n == Cardinality({i \in 1..Len(sorted) : sorted[i] <= x})
       IN  SubSeq(sorted, 1, n) \o <<x>> \o SubSeq(sorted, n + 1, Len(sorted))

RECURSIVE sum(_)
sum(list) == IF Len(list) = 0 THEN 0 ELSE list[1] + sum(Tail(list))

\* indices.filter(keep).length, `keep` given as the set of values kept
count(list, kept) == Cardinality({i \in 1..Len(list) : list[i] \in kept})

\* mutant: the median is taken at index floor((len - 1) / 2)
competitionSummaryLowerMedian(data) ==
  LET indices == sortAscending(data)
      len == Len(indices)
      values == {indices[i] : i \in 1..len}
      isLow == {i \in values : i < 33}
      isMedium == {i \in values : i >= 33 /\ i < 66}
      isHigh == {i \in values : i >= 66}
  IN  [low_competition |-> count(indices, isLow),
       medium_competition |-> count(indices, isMedium),
       high_competition |-> count(indices, isHigh),
       average |-> IF len = 0 THEN NaN ELSE Number(MathRound(sum(indices), len, TRUE)),
       median |-> IF len = 0 THEN undefined ELSE Number(indices[((len - 1) \div 2) + 1])]

\* mutant: the buckets' boundaries are exclusive on both sides
competitionSummaryOpenBuckets(data) ==
  LET indices == sortAscending(data)
      len == Len(indices)
      values == {indices[i] : i \in 1..len}
      isLow == {i \in values : i < 33}
      isMedium == {i \in values : i > 33 /\ i < 66}
      isHigh == {i \in values : i > 66}
  IN  [low_competition |-> count(indices, isLow),
       medium_competition |-> count(indices, isMedium),
       high_competition |-> count(indices, isHigh),
       average |-> IF len = 0 THEN NaN ELSE Number(MathRound(sum(indices), len, TRUE)),
       median |-> IF len = 0 THEN undefined ELSE Number(indices[(len \div 2) + 1])]

\* lines 153-162.  With no rows the division is 0 / 0, which is NaN (and
\* Math.round(NaN) is NaN), and indices[0] is undefined.  A quotient of two
\* integers is rounded exactly, so an exact half always goes up.
competitionSummary(data) ==
  LET indices == sortAscending(data)
      len == Len(indices)
      values == {indices[i] : i \in 1..len}
      isLow == {i \in values : i < 33}
      isMedium == {i \in values : i >= 33 /\ i < 66}
      isHigh == {i \in values : i >= 66}
  IN  [low_competition |-> count(indices, isLow),
       medium_competition |-> count(indices, isMedium),
       high_competition |-> count(indices, isHigh),
       average |-> IF len = 0 THEN NaN ELSE Number(MathRound(sum(indices), len, TRUE)),
       median |-> IF len = 0 THEN undefined ELSE Number(indices[(len \div 2) + 1])]

\* lines 143-163: the query, the throw when it fails, the summary
CompetitionAnalysis ==
  /\ Idle
  /\ \E answer \in Answers(IndexLists) :
       /\ op' = "competition"
       /\ args' = [category |-> "cat", answer |-> answer]
       /\ ret' = IF answer.error
                   THEN [kind |-> "error", message |-> "Failed to analyze competition"]
                   ELSE [kind |-> "ok", value |-> competitionSummary(answer.data)]
  /\ UNCHANGED <<keywords, idx, opportunities, lookupFailed>>

(***************************************************************************)
(* ScoringEngine.calculateTrendVelocity                                    *)
(***************************************************************************)
\* growth percentages: deltas inside the range, at its ends and beyond both
Growths == {-60, -50, -10, -5, 0, 5, 10, 50, 60}

\* mutant: the result is doubled but never capped or floored
calculateTrendVelocityUnbounded(growthSevenDay, growthThirtyDay) ==
  (growthSevenDay - growthThirtyDay) * 2

\* mutant: the branches are taken the wrong way round
calculateTrendVelocitySwapped(growthSevenDay, growthThirtyDay) ==
  IF growthSevenDay < growthThirtyDay
    THEN Min(100, (growthSevenDay - growthThirtyDay) * 2)
    ELSE Max(-100, (growthSevenDay - growthThirtyDay) * 2)

calculateTrendVelocity(growthSevenDay, growthThirtyDay) ==
  IF growthSevenDay > growthThirtyDay
    THEN Min(100, (growthSevenDay - growthThirtyDay) * 2)
    ELSE Max(-100, (growthSevenDay - growthThirtyDay) * 2)

\* a call of ScoringEngine.calculateTrendVelocity
TrendVelocity ==
  /\ Idle
  /\ \E growthSevenDay \in Growths, growthThirtyDay \in Growths :
       /\ op' = "velocity"
       /\ args' = [growthSevenDay |-> growthSevenDay, growthThirtyDay |-> growthThirtyDay]
       /\ ret' = [kind |-> "ok",
                  value |-> calculateTrendVelocity(growthSevenDay, growthThirtyDay)]
  /\ UNCHANGED <<keywords, idx, opportunities, lookupFailed>>

(***************************************************************************)
(* KeywordAnalyzer.getTrendingKeywords                                     *)
(***************************************************************************)
TrendingRows ==
  << [id |-> "t1", keyword |-> "bravo", search_volume |-> 1500, competition_index |-> 30,
      category |-> "cat", trend_status |-> "rising"],
     [id |-> "t2", keyword |-> "delta", search_volume |-> 1400, competition_index |-> 30,
      category |-> "cat", trend_status |-> "rising"],
     [id |-> "t3", keyword |-> "golf", search_volume |-> 900, competition_index |-> 20,
      category |-> "cat", trend_status |-> "stable"],
     [id |-> "t4", keyword |-> "hotel", search_volume |-> 700, competition_index |-> 45,
      category |-> "other", trend_status |-> "rising"] >>

\* the rows the keywords table may hold
TrendingPool == {TrendingRows[i] : i \in 1..Min(MaxRows, Len(TrendingRows))}

\* the trend_analysis rows a keyword may have
OlderSnapshot == [velocity_score |-> 10, analyzed_at |-> 1]
NewerSnapshot == [velocity_score |-> 80, analyzed_at |-> 2]
Histories == {{}, {NewerSnapshot}, {OlderSnapshot, NewerSnapshot}}

CategoryArgs == Optional({"cat", "other"})
Limits == {1, 50}

\* every order of the elements of a set
Orderings(S) ==
  {q \in [1..Cardinality(S) -> S] : \A i, j \in 1..Cardinality(S) : i # j => q[i] # q[j]}

\* trend_analysis(velocity_score): the keyword's snapshots, embedded as an
\* array of { velocity_score }.  The query gives the embedded rows no order,
\* so the array may hold them in any order.
Embeddings ==
  UNION {{[history |-> h,
           trend_analysis |-> [i \in 1..Len(q) |-> [velocity_score |-> q[i].velocity_score]]]
            : q \in Orderings(h)} : h \in Histories}

\* lines 56-68: .eq('trend_status', 'rising'), .eq('category', category) when
\* a category is given, .order('search_volume', { ascending: false }),
\* .limit(limit); each row with its embedded trend_analysis
selectTrending(table, category, limit) ==
  LET rows == {k \in table : /\ k.trend_status = "rising"
                             /\ category # Null => k.category = category[1]}
      n == Cardinality(rows)
      ordered == {q \in Orderings(rows) :
                    \A i, j \in 1..n : i < j => q[i].search_volume >= q[j].search_volume}
      limited == {SubSeq(q, 1, Min(n, limit)) : q \in ordered}
  IN  UNION {{[i \in 1..Len(q) |-> [row |-> q[i], history |-> e[i].history,
                                     trend_analysis |-> e[i].trend_analysis]]
                : e \in [1..Len(q) -> Embeddings]} : q \in limited}

\* lines 76-83: item.trend_analysis?.[0]?.velocity_score ?? 0
trendingEntry(item) ==
  [keyword |-> item.row.keyword,
   search_volume |-> item.row.search_volume,
   competition_index |-> item.row.competition_index,
   trend_status |-> item.row.trend_status,
   velocity_score |-> IF Len(item.trend_analysis) > 0
                        THEN item.trend_analysis[1].velocity_score
                        ELSE 0,
   category |-> item.row.category]

\* lines 55-84: the query, the throw when it fails, the mapping
TrendingKeywords ==
  /\ Idle
  /\ \E category \in CategoryArgs, limit \in Limits, table \in SUBSET TrendingPool :
       \E answer \in Answers(selectTrending(table, category, limit)) :
         /\ op' = "trending"
         /\ args' = [category |-> category, limit |-> limit, answer |-> answer]
         /\ ret' = IF answer.error
                     THEN [kind |-> "error", message |-> "Failed to fetch trending keywords"]
                     ELSE [kind |-> "ok",
                           value |-> [i \in 1..Len(answer.data) |->
                                        trendingEntry(answer.data[i])]]
  /\ UNCHANGED <<keywords, idx, opportunities, lookupFailed>>

(***************************************************************************)
(* KeywordAnalyzer.getSeasonalTrends                                       *)
(***************************************************************************)
MaxSnapshots == 3

\* peak_month of a fetched trend_analysis row: null, or a month 1..12
PeakMonths == Optional(1..12)

PeakLists == UNION {[1..n -> [peak_month : PeakMonths]] : n \in 0..MaxSnapshots}

monthNames ==
  << "January", "February", "March", "April", "May", "June",
     "July", "August", "September", "October", "November", "December" >>

\* a Map<number, number> is the sequence of its entries, in insertion order

\* monthCounts.get(key) ?? 0
mapGetOrZero(entries, key) ==
  IF \E i \in 1..Len(entries) : entries[i].key = key
    THEN entries[CHOOSE i \in 1..Len(entries) : entries[i].key = key].value
    ELSE 0

\* monthCounts.set(key, value): a known key keeps its place
mapSet(entries, key, value) ==
  IF \E i \in 1..Len(entries) : entries[i].key = key
    THEN [i \in 1..Len(entries) |->
            IF entries[i].key = key THEN [key |-> key, value |-> value] ELSE entries[i]]
    ELSE Append(entries, [key |-> key, value |-> value])

\* if (item.peak_month): neither null nor 0
truthy(peak_month) == peak_month # Null /\ peak_month[1] # 0

\* mutant: a month seen again is set to 1 instead of counted up
RECURSIVE seasonalCountsOverwrite(_)
seasonalCountsOverwrite(data) ==
  IF Len(data) = 0 THEN <<>>
  ELSE LET monthCounts == seasonalCountsOverwrite(SubSeq(data, 1, Len(data) - 1))
           item == data[Len(data)]
       IN  IF truthy(item.peak_month)
             THEN mapSet(monthCounts, item.peak_month[1], 1)
             ELSE monthCounts

\* lines 175-180: data.forEach over the fetched rows
RECURSIVE seasonalCounts(_)
seasonalCounts(data) ==
  IF Len(data) = 0 THEN <<>>
  ELSE LET monthCounts == seasonalCounts(SubSeq(data, 1, Len(data) - 1))
           item == data[Len(data)]
       IN  IF truthy(item.peak_month)
             THEN mapSet(monthCounts, item.peak_month[1],
                         mapGetOrZero(monthCounts, item.peak_month[1]) + 1)
             ELSE monthCounts

\* lines 187-190: Array.from(monthCounts.entries()).map(...)
seasonalSummary(data) ==
  LET monthCounts == seasonalCounts(data)
  IN  [i \in 1..Len(monthCounts) |->
         [month |-> monthNames[monthCounts[i].key],
          peak_keywords_count |-> monthCounts[i].value]]

\* lines 165-191: the query, the throw when it fails, the histogram
SeasonalTrends ==
  /\ Idle
  /\ \E answer \in Answers(PeakLists) :
       /\ op' = "seasonal"
       /\ args' = [category |-> "cat", answer |-> answer]
       /\ ret' = IF answer.error
                   THEN [kind |-> "error", message |-> "Failed to fetch seasonal data"]
                   ELSE [kind |-> "ok", value |-> seasonalSummary(answer.data)]
  /\ UNCHANGED <<keywords, idx, opportunities, lookupFailed>>

\* the caller takes the outcome; the analyzer keeps nothing between calls
Return ==
  /\ op # "none"
  /\ ret.kind # "pending"
  /\ op' = "none"
  /\ args' = <<>>
  /\ ret' = [kind |-> "none"]
  /\ keywords' = <<>>
  /\ idx' = 0
  /\ opportunities' = <<>>
  /\ lookupFailed' = FALSE

Next ==
  \/ Score
  \/ SEOScore
  \/ FindStart
  \/ FindStep
  \/ FindReturn
  \/ CompetitionAnalysis
  \/ TrendVelocity
  \/ TrendingKeywords
  \/ SeasonalTrends
  \/ Return

Spec == Init /\ [][Next]_vars

(***************************************************************************)
(* Claims about ScoringEngine.calculateOpportunityScore                    *)
(***************************************************************************)
Scored == op = "score"
ValidScoreArgs ==
  ValidKeyword(args.keyword) /\ ValidMetrics(args.metrics) /\ ValidTrend(args.trend)

\* C1: the opportunity_score returned by calculateOpportunityScore is an
\* integer in 0..100, for every valid input (and, thanks to the final clamp,
\* for the out-of-range inputs as well).
C1_ScoreInRange ==
  Scored => ret.value.opportunity_score \in 0..100

\* C1 witness: a valid call at the extreme of volume and competition
\* (volume far above the cap, no competition, full velocity, no saturation).
C1_Witness ==
  /\ Scored /\ ValidScoreArgs
  /\ args.keyword.search_volume = 20000
  /\ args.keyword.competition_index = 0
  /\ args.trend # Null /\ args.trend[1].velocity_score = 100
  /\ args.metrics # Null /\ args.metrics[1].niche_saturation = 0
  /\ ret.value.opportunity_score = 65

\* the tier the claim describes, from the returned score
C5_Tier(score, volume, competition) ==
  CASE score > 80 /\ volume > 1000 /\ competition < 30 -> "very_high"
    [] ~(score > 80 /\ volume > 1000 /\ competition < 30)
         /\ score > 70 /\ volume > 500 -> "high"
    [] ~(score > 80 /\ volume > 1000 /\ competition < 30)
         /\ ~(score > 70 /\ volume > 500) /\ score > 50 -> "medium"
    [] OTHER -> "low"

C6_Case(volume) ==
  /\ Scored
  /\ ret.value.opportunity_score = 80
  /\ ret.value.search_volume = volume
  /\ ret.value.competition_index = 29

C7_Case ==
  /\ Scored
  /\ args.keyword.search_volume = 600
  /\ args.keyword.competition_index = 20
  /\ args.keyword.trend_status = "peak"
  /\ args.trend = Null
  /\ args.metrics = Null

C8_Volume(k) ==
  IF k.search_volume > 500
    THEN <<"High search volume (" \o ToString(k.search_volume) \o " searches)">>
    ELSE <<>>
C8_Competition(k) ==
  IF k.competition_index \in 40..70 THEN <<>>
  ELSE IF k.competition_index < 40 THEN <<"Low competition">>
  ELSE <<"High competition market">>
C8_Velocity(t) ==
  IF t = Null THEN <<>>
  ELSE IF t[1].velocity_score > 50 THEN <<"Rapidly rising trend">>
  ELSE IF t[1].velocity_score > 20 THEN <<"Growing trend">>
  ELSE <<>>
C8_Status(k) ==
  IF k.trend_status = "peak" THEN <<"Currently at peak popularity">>
  ELSE IF k.trend_status = "rising" THEN <<"Trending upward">>
  ELSE <<>>
C8_Intent(m) ==
  IF m # Null /\ m[1].commercial_intent > 70 THEN <<"High buyer intent">> ELSE <<>>
C8_Phrases(k, m, t) ==
  C8_Volume(k) \o C8_Competition(k) \o C8_Velocity(t) \o C8_Status(k) \o C8_Intent(m)
C8_Joined(ps) ==
  IF Len(ps) = 0 THEN "Moderate opportunity"
  ELSE LET F[i \in 1..Len(ps)] == IF i = 1 THEN ps[1] ELSE F[i - 1] \o ". " \o ps[i]
       IN  F[Len(ps)]

C8_WitnessFallback ==
  /\ Scored
  /\ args.keyword.competition_index = 40
  /\ ret.value.reason = "Moderate opportunity"

\* the trend and metrics reduced to what the claim says matters
C10_Trend(t) ==
  IF t = Null \/ t[1].velocity_score <= 0 THEN Null
  ELSE Some([velocity_score |-> t[1].velocity_score])
C10_Metrics(m) ==
  IF m = Null \/ m[1].niche_saturation = 50 THEN Null
  ELSE Some([niche_saturation |-> m[1].niche_saturation,
             commercial_intent |-> 0, conversion_potential |-> 0])

\* C10: score and tier depend on the trend only through max(0,
\* velocity_score) and on the metrics only through niche_saturation: a trend
\* with velocity <= 0 scores as an absent trend, metrics with saturation 50
\* as absent metrics, and no other metrics field matters.
C10_DependsOnlyOn ==
  Scored =>
    LET same == calculateOpportunityScore(args.keyword, C10_Metrics(args.metrics),
                                          C10_Trend(args.trend), args.fpTieUp)
    IN  /\ ret.value.opportunity_score = same.opportunity_score
        /\ ret.value.potential_revenue_tier = same.potential_revenue_tier

\* C10 witness: a negative velocity and a recorded saturation of 50.
C10_Witness ==
  /\ Scored
  /\ args.trend # Null /\ args.trend[1].velocity_score = -100
  /\ args.metrics # Null /\ args.metrics[1].niche_saturation = 50
  /\ args.metrics[1].commercial_intent = 71
  /\ ret.value.opportunity_score > 0

(***************************************************************************)
(* Claims about ScoringEngine.calculateSEOScore                            *)
(***************************************************************************)
SEOScored == op = "seo"
ValidSEOArgs == ValidKeyword(args.keyword) /\ ValidMetrics(args.metrics)

\* C9 as stated: no clamp, and valid inputs with very high volume score above
\* 100.  The score grows with volume (up to the cap), with conversion and
\* with falling competition, so if any valid input scores above 100 the most
\* favourable one does.
C9_Original ==
  (/\ SEOScored /\ ValidSEOArgs
   /\ args.keyword.search_volume = 20000
   /\ args.keyword.competition_index = 0
   /\ args.metrics # Null /\ args.metrics[1].conversion_potential = 100)
    => ret.value > 100

\* C9 amended: calculateSEOScore applies no clamp, but for valid inputs the
\* score never exceeds 100: the volume term is capped at 50, so the maximum
\* is exactly 100; only out-of-range inputs (conversion 120, competition
\* -20) take it above 100, and then nothing cuts it back.
C9_Amended ==
  SEOScored =>
    /\ ValidSEOArgs => ret.value \in 0..100
    /\ (/\ args.keyword.search_volume >= 1000
        /\ args.keyword.competition_index = -20
        /\ args.metrics # Null /\ args.metrics[1].conversion_potential = 120)
         => ret.value = 110

\* C9 witness: the most favourable valid input, scoring exactly 100.
C9_Witness ==
  /\ SEOScored /\ ValidSEOArgs
  /\ args.keyword.search_volume = 20000
  /\ args.keyword.competition_index = 0
  /\ args.metrics # Null /\ args.metrics[1].conversion_potential = 100
  /\ ret.value = 100

\* both outcomes of an exact half are part of the model
TieWitness == Scored /\ ~args.fpTieUp

(***************************************************************************)
(* Claims about KeywordAnalyzer.findOpportunities                          *)
(***************************************************************************)
Found == op = "find" /\ ret.kind = "ok"

\* C2: if any repository read of findOpportunities fails (the candidate
\* list, or the metrics or trend lookup of a candidate), the operation fails
\* and returns no result sequence.
C2_FailurePropagates ==
  /\ Found => ~lookupFailed
  /\ (op = "find" /\ lookupFailed) => ret.kind # "ok"

\* position of a returned entry's candidate in the repository's list
C4_Pos(i) == CHOOSE k \in 1..Len(keywords) : keywords[k].keyword = ret.value[i].keyword

\* C4: findOpportunities returns exactly one OpportunityScore per candidate
\* (none, and no error, for an empty candidate set), by opportunity_score
\* descending, entries of equal score in the candidates' order.
C4_SortedStable ==
  /\ Found =>
       LET r == ret.value
           n == Len(keywords)
       IN  /\ Len(r) = n
           /\ \A k \in 1..n :
                Cardinality({i \in 1..Len(r) :
                               /\ r[i].keyword = keywords[k].keyword
                               /\ r[i].search_volume = keywords[k].search_volume}) = 1
           /\ \A i, j \in 1..Len(r) :
                i < j => r[i].opportunity_score >= r[j].opportunity_score
           /\ \A i, j \in 1..Len(r) :
                (i < j /\ r[i].opportunity_score = r[j].opportunity_score)
                  => C4_Pos(i) < C4_Pos(j)
  /\ (op = "find" /\ ret.kind = "pending" /\ keywords = <<>>)
       => (ENABLED FindReturn /\ ~ENABLED FindStep)
  /\ (Found /\ keywords = <<>>) => ret.value = <<>>

\* C4 witness: three candidates returned, the sort has moved the last
\* candidate to the front, and two entries of equal score follow it.
C4_Witness ==
  /\ Found
  /\ Len(ret.value) = 3
  /\ ret.value[1].keyword = keywords[3].keyword
  /\ ret.value[2].opportunity_score = ret.value[3].opportunity_score
  /\ ret.value[1].opportunity_score > ret.value[2].opportunity_score

\* C4 witness of the empty case: the filter leaves no candidate.
C4_WitnessEmpty == Found /\ keywords = <<>> /\ args.minSearchVolume = 1450

(***************************************************************************)
(* Claims about KeywordAnalyzer.getCompetitionAnalysis                     *)
(***************************************************************************)
Analysed == op = "competition"

\* C3: for a category with no keywords getCompetitionAnalysis fails with an
\* EmptyCategoryError; it never returns a summary whose average is NaN or
\* whose median is undefined.
C3_EmptyCategoryError ==
  /\ (Analysed /\ ~args.answer.error /\ args.answer.data = <<>>)
       => (ret.kind = "error" /\ ret.message = "EmptyCategoryError")
  /\ (Analysed /\ ret.kind = "ok")
       => (ret.value.average.type # "NaN" /\ ret.value.median.type # "undefined")

(***************************************************************************)
(* Claims about ScoringEngine.calculateTrendVelocity                       *)
(***************************************************************************)
VelocityComputed == op = "velocity"
C11_Call(g7, g30) ==
  VelocityComputed /\ args.growthSevenDay = g7 /\ args.growthThirtyDay = g30

\* C11: calculateTrendVelocity(g7, g30) is min(100, (g7 - g30) * 2) when
\* g7 > g30 and max(-100, (g7 - g30) * 2) otherwise; (10, 5) gives 10,
\* (5, 10) gives -10 and (60, 0) gives 100, not 120.
C11_VelocityFormula ==
  /\ VelocityComputed =>
       LET doubled == (args.growthSevenDay - args.growthThirtyDay) * 2 IN
         /\ args.growthSevenDay > args.growthThirtyDay
              => ret.value = (IF doubled > 100 THEN 100 ELSE doubled)
         /\ args.growthSevenDay <= args.growthThirtyDay
              => ret.value = (IF doubled < -100 THEN -100 ELSE doubled)
  /\ C11_Call(10, 5) => ret.value = 10
  /\ C11_Call(5, 10) => ret.value = -10
  /\ C11_Call(60, 0) => ret.value = 100

\* C11 witness: the capped call of the claim, (60, 0).
C11_Witness == C11_Call(60, 0) /\ ret.value = 100

\* C16: for every pair of inputs the result lies in -100..100 and is
\* (g7 - g30) * 2 clamped to -100..100 on both sides: the branch that caps
\* never needs the floor and the branch that floors never needs the cap.
C16_SymmetricClamp ==
  VelocityComputed =>
    LET doubled == (args.growthSevenDay - args.growthThirtyDay) * 2 IN
      /\ ret.value \in -100..100
      /\ doubled \in -100..100 => ret.value = doubled
      /\ doubled > 100 => ret.value = 100
      /\ doubled < -100 => ret.value = -100

\* C16 witness: the floored call (-60, 60), whose doubled delta is -240.
C16_Witness == C11_Call(-60, 60) /\ ret.value = -100

AnalysedSome == Analysed /\ ret.kind = "ok" /\ Len(args.answer.data) > 0

\* how many of the fetched indices satisfy a bound
C12_Below(m) ==
  Cardinality({i \in 1..Len(args.answer.data) : args.answer.data[i] < m})
C12_AtMost(m) ==
  Cardinality({i \in 1..Len(args.answer.data) : args.answer.data[i] <= m})

\* m is the k-th smallest (k = 1, 2, ...) of the fetched indices
C12_IsKthSmallest(m, k) == C12_Below(m) < k /\ C12_AtMost(m) >= k

\* C12 as stated: the median is the element at 0-based index floor(n/2) of
\* the ascending indices, which for even n is the lower of the two middle
\* values; for [10,20,30,40] it is 30.
C12_Original ==
  AnalysedSome =>
    LET n == Len(args.answer.data)
        m == ret.value.median.value
    IN  /\ C12_IsKthSmallest(m, (n \div 2) + 1)
        /\ n % 2 = 0 => C12_IsKthSmallest(m, n \div 2)
        /\ args.answer.data = <<10, 20, 30, 40>> => m = 30

\* C12 amended: the median is the element at 0-based index floor(n/2) of
\* the ascending indices, which for even n is the upper of the two middle
\* values (upper-median, not averaged); for [10,20,30,40] it is 30.
C12_Amended ==
  AnalysedSome =>
    LET n == Len(args.answer.data)
        m == ret.value.median.value
    IN  /\ ret.value.median.type = "number"
        /\ C12_IsKthSmallest(m, (n \div 2) + 1)
        /\ (n % 2 = 0 /\ ~C12_IsKthSmallest(m, n \div 2))
             => \E lower \in IndexValues : lower < m /\ C12_IsKthSmallest(lower, n \div 2)
        /\ args.answer.data = <<10, 20, 30, 40>> => m = 30

\* C12 witness: the indices of the claim, fetched out of order.
C12_Witness ==
  /\ AnalysedSome
  /\ args.answer.data = <<40, 10, 30, 20>>
  /\ ret.value.median.value = 30

\* C17: every fetched index is counted in exactly one bucket (low < 33,
\* medium >= 33 and < 66, high >= 66), so the three counts add up to the
\* number of indices; 33 counts as medium and 66 as high.
C17_BucketsPartition ==
  (Analysed /\ ret.kind = "ok") =>
    LET data == args.answer.data
        n(S) == Cardinality({i \in 1..Len(data) : data[i] \in S})
    IN  /\ ret.value.low_competition + ret.value.medium_competition
             + ret.value.high_competition = Len(data)
        /\ ret.value.low_competition = n({v \in IndexValues : v <= 32})
        /\ ret.value.medium_competition = n({v \in IndexValues : 33 <= v /\ v <= 65})
        /\ ret.value.high_competition = n({v \in IndexValues : 66 <= v})

\* C17 witness: the boundary values 32, 33, 65 and 66, one bucket each.
C17_Witness ==
  /\ Analysed /\ ret.kind = "ok"
  /\ args.answer.data = <<66, 33, 65, 32>>
  /\ ret.value.low_competition = 1
  /\ ret.value.medium_competition = 2
  /\ ret.value.high_competition = 1

Trended == op = "trending" /\ ret.kind = "ok"

\* the most recent snapshot of a non-empty history
C13_Latest(h) == CHOOSE s \in h : \A t \in h : t.analyzed_at <= s.analyzed_at

\* the entries are the repository's rows, one each, in the repository's order
C13_RowsKept ==
  Trended =>
    /\ Len(ret.value) = Len(args.answer.data)
    /\ \A i \in 1..Len(ret.value) :
         /\ ret.value[i].keyword = args.answer.data[i].row.keyword
         /\ ret.value[i].search_volume = args.answer.data[i].row.search_volume
    /\ \A i, j \in 1..Len(ret.value) :
         i < j => ret.value[i].search_volume >= ret.value[j].search_volume

\* C13: getTrendingKeywords returns one entry per row of the repository, in
\* the repository's order (volume descending), and each entry's
\* velocity_score is that of the keyword's most recent trend snapshot, or 0
\* when it has none.
C13_LatestVelocity ==
  /\ C13_RowsKept
  /\ Trended =>
       \A i \in 1..Len(ret.value) :
         ret.value[i].velocity_score =
           (IF args.answer.data[i].history = {} THEN 0
            ELSE C13_Latest(args.answer.data[i].history).velocity_score)

(***************************************************************************)
(* Claims about KeywordAnalyzer.getSeasonalTrends                          *)
(***************************************************************************)
Seasoned == op = "seasonal" /\ ret.kind = "ok"

\* the fetched rows whose peak_month is the month m
C14_RowsOf(m) ==
  {i \in 1..Len(args.answer.data) : args.answer.data[i].peak_month = Some(m)}

RECURSIVE C14_Total(_)
C14_Total(summary) ==
  IF Len(summary) = 0 THEN 0
  ELSE summary[1].peak_keywords_count + C14_Total(Tail(summary))

\* C14: getSeasonalTrends counts only the snapshots whose peak_month is
\* present: the counts add up to the number of fetched snapshots with a
\* peak_month in 1..12, each month name appears at most once, and a month's
\* count is the number of snapshots whose peak_month is that month.
C14_SeasonalCounts ==
  Seasoned =>
    LET r == ret.value IN
      /\ C14_Total(r) = Cardinality(UNION {C14_RowsOf(m) : m \in 1..12})
      /\ \A i, j \in 1..Len(r) : i # j => r[i].month # r[j].month
      /\ \A m \in 1..12 :
           IF C14_RowsOf(m) = {}
             THEN \A i \in 1..Len(r) : r[i].month # monthNames[m]
             ELSE \E i \in 1..Len(r) :
                    /\ r[i].month = monthNames[m]
                    /\ r[i].peak_keywords_count = Cardinality(C14_RowsOf(m))

\* C14 witness: December twice around a row without peak_month.
C14_Witness ==
  /\ Seasoned
  /\ args.answer.data =
       << [peak_month |-> Some(12)], [peak_month |-> Null], [peak_month |-> Some(12)] >>
  /\ ret.value = << [month |-> "December", peak_keywords_count |-> 2] >>

====
